---------------------------- MODULE Spec2Model ----------------------------
(***************************************************************************)
(* A model of bigram.py: a character-level decoder-only transformer, its   *)
(* batch sampler, its loss estimator, its training loop and its sampler.   *)
(*                                                                         *)
(* Tensors are modelled by their shapes (tuples of sizes) and, where a     *)
(* claim needs the contents, by token ids and by symbolic terms over them. *)
(* A failing tensor operation (an exception in the program) ends the run   *)
(* in pc = "error" with the failing source site recorded.                  *)
(***************************************************************************)
EXTENDS Integers, Sequences, FiniteSets, TLC

(* ------------------------------ bounds -------------------------------- *)
\* hyperparameters are drawn from 1..Max*; the loop counts are scaled down
MaxBlockSize == 3
MaxEmbed == 3
MaxHead == 2
MaxVocab == 2
MaxSeedLen == 4
MaxNewTokens == 2
MaxTextLen == 21
batch_size == 1
max_iters == 3
eval_interval == 2
eval_iters == 1
\* program constant
n_layer == 3

VARIABLES
  cfg,          \* hyperparameters [block_size, n_embed, n_head]
  vocab_size,   \* len(chars)
  train_data,   \* data[:n]
  val_data,     \* data[n:]
  model,        \* "none" before BigramLanguageModel() has returned, then "built"
  training,     \* model.training, the mode flag shared by every sub-layer
  pc,           \* position of the driver (or of the caller) in the script
  iter,         \* the training loop's counter
  est,          \* frame of estimate_loss: [split, k, entry, ret, returned]
  ix,           \* get_batch: the sampled offsets (a local of get_batch)
  xb,           \* the batch's input windows, one row per example
  yb,           \* the batch's target windows
  fwd,          \* frame of BigramLanguageModel.forward
  gen,          \* frame of generate: [seed, idx, max_new_tokens, i, idx_cond, ...]
  steps,        \* optimizer steps taken and the mode flag at the last one
  err           \* the operation that raised, "" while nothing has

vars == <<cfg, vocab_size, train_data, val_data, model, training, pc, iter,
          est, ix, xb, yb, fwd, gen, steps, err>>

(* --------------------------- tensor shapes ---------------------------- *)
RECURSIVE Numel(_)
Numel(shape) == IF shape = <<>> THEN 1 ELSE Head(shape) * Numel(Tail(shape))

\* tensor.view(shape): the element count must be kept
ViewOk(from, to) == Numel(from) = Numel(to)

\* broadcasting of one dimension; -1 when the sizes are incompatible
BroadcastDim(a, b) ==
  IF a = b THEN a ELSE IF a = 1 THEN b ELSE IF b = 1 THEN a ELSE -1

Min(a, b) == IF a < b THEN a ELSE b
Max(a, b) == IF a > b THEN a ELSE b

\* Python's seq[lo:hi] for 0 <= lo, with hi clamped to the length
Slice(s, lo, hi) ==
  LET h == Min(hi, Len(s)) IN
  IF lo >= h THEN <<>> ELSE SubSeq(s, lo + 1, h)

\* Python's seq[-n:] for n >= 1: the last min(n, len) elements
LastN(s, n) == Slice(s, Max(Len(s) - n, 0), Len(s))


(* ----------------------- MultiHeadAttention --------------------------- *)
\* torch.tril(torch.ones(block_size, block_size)), 1-based
TrilUpper(bs) == [i \in 1..bs |-> [j \in 1..bs |-> IF j >= i THEN 1 ELSE 0]]
tril(bs) == [i \in 1..bs |-> [j \in 1..bs |-> IF j <= i THEN 1 ELSE 0]]

NegInf == <<"-inf">>
Zero == <<"0">>

\* the attention of one head on one batch row x, entry by entry.
\* (q @ k.transpose(-2, -1)) * scale: entry (i, j) is a function of x[i]
\* and x[j]
Score(x, i, j) == <<"qk", x[i], x[j]>>

\* the (bs, bs) mask read at (i, j) of a (T, T) tensor it broadcasts with
MaskAt(bs, i, j) ==
  tril(bs)[IF bs = 1 THEN 1 ELSE i][IF bs = 1 THEN 1 ELSE j]

\* att.masked_fill(self.tril == 0, float('-inf'))
MaskedFill(x, bs, i, j) ==
  IF MaskAt(bs, i, j) = 0 THEN NegInf ELSE Score(x, i, j)

MaskedRow(x, bs, i) == [j \in 1..Len(x) |-> MaskedFill(x, bs, i, j)]

\* F.softmax(att, dim=-1): exp(-inf) = 0, every other entry is positive and
\* a function of its whole row
Softmax(x, bs, i, j) ==
  IF MaskedFill(x, bs, i, j) = NegInf THEN Zero
  ELSE <<"softmax", MaskedFill(x, bs, i, j), MaskedRow(x, bs, i)>>

\* self.attn_dropout: the identity in evaluation mode; in training mode the
\* dropped entries become zero and the kept ones are rescaled
Dropout(x, bs, train, dropped, i, j) ==
  LET w == Softmax(x, bs, i, j) IN
  IF ~train THEN w
  ELSE IF <<i, j>> \in dropped \/ w = Zero THEN Zero
  ELSE <<"scaled", w>>

\* the attention weights after dropout, zero (0) or not (1)
AttWeights(x, bs, train, dropped) ==
  [i \in 1..Len(x) |->
     [j \in 1..Len(x) |->
        IF Dropout(x, bs, train, dropped, i, j) = Zero THEN 0 ELSE 1]]

\* row i of att @ v: the sum over the keys j with a non-zero weight of
\* weight * v[j], v[j] a function of x[j]
AttOut(x, bs, train, dropped, i) ==
  [j \in {jj \in 1..Len(x) : Dropout(x, bs, train, dropped, i, jj) # Zero} |->
     <<Dropout(x, bs, train, dropped, i, j), x[j]>>]

\* the shapes of MultiHeadAttention.forward on x of shape (B, T, C):
\* [ok, site, shape], site naming the operation that raised.  The views of
\* lines 120-122 need B*T*C = B*T*n_head*(C // n_head); math.sqrt(0) makes
\* line 124 divide by zero; masked_fill broadcasts att with the whole
\* (bs, bs) mask, which widens a (1, 1) att to (bs, bs); att @ v then needs
\* the last size of att to be T.
MHAShape(B, T, C, nh, bs) ==
  LET hs == C \div nh
      r == BroadcastDim(T, bs)
  IN
  IF ~ViewOk(<<B, T, C>>, <<B, T, nh, hs>>)
    THEN [ok |-> FALSE, site |-> "view", shape |-> <<>>]
  ELSE IF hs = 0
    THEN [ok |-> FALSE, site |-> "sqrt", shape |-> <<>>]
  ELSE IF r = -1
    THEN [ok |-> FALSE, site |-> "masked_fill", shape |-> <<>>]
  ELSE IF r # T
    THEN [ok |-> FALSE, site |-> "matmul", shape |-> <<>>]
  ELSE IF ~ViewOk(<<B, r, nh, hs>>, <<B, T, C>>)
    THEN [ok |-> FALSE, site |-> "view", shape |-> <<>>]
  ELSE [ok |-> TRUE, site |-> "", shape |-> <<B, T, C>>]

\* the sets of attention weights one dropout draw may zero: none in
\* evaluation mode; in training mode the model follows the draws that zero
\* no weight or a single one
DropSets(T, train) ==
  IF train THEN {{}} \cup {{e} : e \in (1..T) \X (1..T)} ELSE {{}}

(* -------------------- BigramLanguageModel.forward --------------------- *)
Idle ==
  [stage |-> "idle", idx |-> <<>>, targets |-> FALSE, layer |-> 0,
   mode |-> TRUE, x |-> <<>>, wei |-> <<>>, dropped |-> {}, logits |-> <<>>,
   loss |-> FALSE]

\* model(idx, targets): the frame on entry; mode is the flag's value then
Call(rows, withTargets) ==
  [Idle EXCEPT !.stage = "embed", !.idx = rows, !.targets = withTargets,
               !.mode = training]

\* an exception leaves forward and ends the run
Raise(site) ==
  /\ fwd' = [fwd EXCEPT !.stage = "error"]
  /\ err' = site
  /\ pc' = "error"

FwdB == Len(fwd.idx)
FwdT == Len(fwd.idx[1])
FwdActive == fwd.stage \in {"embed", "blocks", "head"}

\* tok_embed + pos_embed: position i holds a function of its token and of i
Embed(row) == [i \in 1..Len(row) |-> <<row[i], i>>]

\* the largest sequence length the position table can embed
PosLimitNone(bs) == bs + MaxSeedLen
PosLimit(bs) == bs

\* lines 181-185: the two embedding lookups
FwdEmbed ==
  /\ fwd.stage = "embed"
  /\ IF \E b \in 1..FwdB : \E i \in 1..FwdT : fwd.idx[b][i] \notin 0..(vocab_size - 1)
       THEN Raise("token_embedding")
     ELSE IF FwdT > PosLimit(cfg.block_size)
       THEN Raise("position_embedding")
     ELSE /\ fwd' = [fwd EXCEPT !.stage = "blocks",
                                !.x = <<FwdB, FwdT, cfg.n_embed>>]
          /\ UNCHANGED <<pc, err>>
  /\ UNCHANGED <<cfg, vocab_size, train_data, val_data, model, training, iter,
                 est, ix, xb, yb, gen, steps>>

\* line 186, one Block of the stack: x + sa(ln1(x)), then x + ffwd(ln2(x)).
\* LayerNorm, FeedForward and the residual sums keep the shape and act on
\* each position alone; the attention may raise.  x is the shape of the
\* activations, wei the zero pattern of the attention weights of the first
\* head on the first batch row.
FwdBlock ==
  /\ fwd.stage = "blocks"
  /\ LET sh == MHAShape(FwdB, FwdT, cfg.n_embed, cfg.n_head, cfg.block_size) IN
     IF ~sh.ok
       THEN Raise(sh.site)
     ELSE /\ \E d \in DropSets(FwdT, training) :
               fwd' = [fwd EXCEPT
                         !.layer = @ + 1,
                         !.stage = IF fwd.layer + 1 = n_layer THEN "head" ELSE "blocks",
                         !.x = sh.shape,
                         !.dropped = d,
                         !.wei = AttWeights(Embed(fwd.idx[1]), cfg.block_size,
                                            training, d)]
          /\ UNCHANGED <<pc, err>>
  /\ UNCHANGED <<cfg, vocab_size, train_data, val_data, model, training, iter,
                 est, ix, xb, yb, gen, steps>>

\* lines 187-198: ln_f, lm_head and, with targets, the cross-entropy of the
\* logits flattened to (B*T, V)
FwdHead ==
  /\ fwd.stage = "head"
  /\ fwd' = [fwd EXCEPT
               !.stage = "done",
               !.logits = IF fwd.targets THEN <<FwdB * FwdT, vocab_size>>
                          ELSE <<FwdB, FwdT, vocab_size>>,
               !.loss = fwd.targets]
  /\ UNCHANGED <<cfg, vocab_size, train_data, val_data, model, training, pc, iter,
                 est, ix, xb, yb, gen, steps, err>>

(* ------------------------------ generate ------------------------------ *)
NoGen ==
  [seed |-> <<>>, idx |-> <<>>, max_new_tokens |-> 0, i |-> 0,
   idx_cond |-> <<>>, passes |-> 0, returned |-> FALSE]

\* generate(idx, max_new_tokens) with a single-row context: the frame on entry
GenCall(seed, k) == [NoGen EXCEPT !.seed = seed, !.idx = seed, !.max_new_tokens = k]

\* idx[:, -block_size:]
CondFirst(idx, bs) == Slice(idx, 0, bs)
Cond(idx, bs) == LastN(idx, bs)

\* torch.cat([idx, idx_next], dim=1)
CatFront(idx, tok) == <<tok>> \o idx
Cat(idx, tok) == Append(idx, tok)

\* lines 201-203: one more iteration, up to the forward pass
GenStep ==
  /\ pc = "generate"
  /\ gen.i < gen.max_new_tokens
  /\ LET c == Cond(gen.idx, cfg.block_size) IN
     /\ gen' = [gen EXCEPT !.idx_cond = c, !.passes = @ + 1]
     /\ fwd' = Call(<<c>>, FALSE)
  /\ pc' = "gen_forward"
  /\ UNCHANGED <<cfg, vocab_size, train_data, val_data, model, training, iter,
                 est, ix, xb, yb, steps, err>>

\* lines 204-207: the last position's logits, softmax, one sample, append.
\* logits[:, -1, :] raises on an empty time axis; every id has a positive
\* probability, so multinomial may return any of them.
GenSample ==
  /\ pc = "gen_forward"
  /\ fwd.stage = "done"
  /\ IF fwd.logits[2] = 0
       THEN Raise("logits[:, -1, :]") /\ gen' = gen
     ELSE /\ \E tok \in 0..(fwd.logits[3] - 1) :
               gen' = [gen EXCEPT !.idx = Cat(gen.idx, tok), !.i = @ + 1]
          /\ fwd' = Idle
          /\ pc' = "generate"
          /\ err' = err
  /\ UNCHANGED <<cfg, vocab_size, train_data, val_data, model, training, iter,
                 est, ix, xb, yb, steps>>

\* line 208
GenReturn ==
  /\ pc = "generate"
  /\ gen.i >= gen.max_new_tokens
  /\ gen' = [gen EXCEPT !.returned = TRUE]
  /\ pc' = "done"
  /\ UNCHANGED <<cfg, vocab_size, train_data, val_data, model, training, iter,
                 est, ix, xb, yb, fwd, steps, err>>

(* ------------------------- corpus and start --------------------------- *)
\* the encoded corpus of length L over V characters, "ab..." repeated
Text(V, L) == [i \in 1..L |-> (i - 1) % V]

\* len(sorted(set(text)))
VocabSize(text) == Cardinality({text[i] : i \in 1..Len(text)})

\* n = int(0.9 * len(data)); exact for the lengths used here
SplitAt(text) == (9 * Len(text)) \div 10

Hyper ==
  [block_size : 1..MaxBlockSize, n_embed : 1..MaxEmbed, n_head : 1..MaxHead]

\* the state after lines 1-42 for a corpus and a choice of hyperparameters
Loaded(text, h) ==
  /\ cfg = h
  /\ vocab_size = VocabSize(text)
  /\ train_data = Slice(text, 0, SplitAt(text))
  /\ val_data = Slice(text, SplitAt(text), Len(text))
  /\ iter = 0
  /\ est = [split |-> 0, k |-> 0, entry |-> TRUE, ret |-> "", returned |-> FALSE]
  /\ ix = <<>>
  /\ xb = <<>>
  /\ yb = <<>>
  /\ fwd = Idle
  /\ gen = NoGen
  /\ steps = [n |-> 0, mode |-> TRUE]
  /\ err = ""

(* ------------------------------ callers ------------------------------- *)
\* a caller holding a constructed model (nn.Module starts in training mode)
InitClient ==
  /\ \E h \in Hyper : Loaded(Text(MaxVocab, MaxTextLen), h)
  /\ model = "built"
  /\ training = TRUE
  /\ pc = "client"

\* model.train(mode) / model.eval()
ClientSetMode ==
  /\ pc = "client"
  /\ \E b \in BOOLEAN : training' = b
  /\ pc' = "ready"
  /\ UNCHANGED <<cfg, vocab_size, train_data, val_data, model, iter,
                 est, ix, xb, yb, fwd, gen, steps, err>>

\* the id sequences a caller passes: of length 0..n, all zeros (the driver's
\* context) or running through the vocabulary
Seqs(n) ==
  {[i \in 1..m |-> 0] : m \in 0..n}
    \cup {[i \in 1..m |-> (i - 1) % vocab_size] : m \in 0..n}

\* model(idx) or model(idx, targets) on one row of ids
ClientForward ==
  /\ pc = "ready"
  /\ \E row \in Seqs(MaxSeedLen) : \E t \in BOOLEAN : fwd' = Call(<<row>>, t)
  /\ pc' = "client_forward"
  /\ UNCHANGED <<cfg, vocab_size, train_data, val_data, model, training, iter,
                 est, ix, xb, yb, gen, steps, err>>

ClientForwardReturn ==
  /\ pc = "client_forward"
  /\ fwd.stage = "done"
  /\ pc' = "done"
  /\ UNCHANGED <<cfg, vocab_size, train_data, val_data, model, training, iter,
                 est, ix, xb, yb, fwd, gen, steps, err>>

\* model.generate(seed, k)
ClientGenerate ==
  /\ pc = "ready"
  /\ \E seed \in Seqs(MaxSeedLen) : \E k \in 0..MaxNewTokens : gen' = GenCall(seed, k)
  /\ pc' = "generate"
  /\ UNCHANGED <<cfg, vocab_size, train_data, val_data, model, training, iter,
                 est, ix, xb, yb, fwd, steps, err>>

NextFwd ==
  \/ ClientSetMode
  \/ ClientForward
  \/ FwdEmbed
  \/ FwdBlock
  \/ FwdHead
  \/ ClientForwardReturn

SpecFwd == InitClient /\ [][NextFwd]_vars

NextGen ==
  \/ ClientSetMode
  \/ ClientGenerate
  \/ GenStep
  \/ FwdEmbed
  \/ FwdBlock
  \/ FwdHead
  \/ GenSample
  \/ GenReturn

SpecGen == InitClient /\ [][NextGen]_vars

(* ----------------------------- get_batch ------------------------------ *)
Splits == <<"train", "val">>

\* data = train_data if split == 'train' else val_data
Data(split) == IF split = "train" THEN train_data ELSE val_data

\* the exclusive upper end of torch.randint(len(data) - block_size, ...)
RandHighInclusive(data, bs) == Len(data) - bs + 1
RandHigh(data, bs) == Len(data) - bs

\* [data[i:i + block_size] for i in ix], [data[i + 1:i + 1 + block_size] ...]
WindowsX(data, ixs, bs) == [b \in 1..Len(ixs) |-> Slice(data, ixs[b], ixs[b] + bs)]
WindowsY(data, ixs, bs) ==
  [b \in 1..Len(ixs) |-> Slice(data, ixs[b] + 1, ixs[b] + 1 + bs)]

\* torch.stack needs tensors of one size
StackOk(rows) == \A a \in 1..Len(rows) : Len(rows[a]) = Len(rows[1])

\* get_batch(split), lines 46-51; randint raises unless its upper end is > 0
GetBatch(split, next) ==
  LET data == Data(split)
      high == RandHigh(data, cfg.block_size)
  IN
  IF high <= 0
    THEN /\ err' = "randint"
         /\ pc' = "error"
         /\ UNCHANGED <<ix, xb, yb>>
  ELSE \E ixs \in [1..batch_size -> 0..(high - 1)] :
         LET x == WindowsX(data, ixs, cfg.block_size)
             y == WindowsY(data, ixs, cfg.block_size)
         IN
         IF StackOk(x) /\ StackOk(y)
           THEN /\ ix' = ixs
                /\ xb' = x
                /\ yb' = y
                /\ pc' = next
                /\ err' = err
         ELSE /\ err' = "stack"
              /\ pc' = "error"
              /\ UNCHANGED <<ix, xb, yb>>

(* --------------------------- estimate_loss ---------------------------- *)
\* model.eval()
ModelEvalNoop == training
ModelEval == FALSE

\* model.train()
ModelTrain == TRUE

\* lines 55-56: entry is the mode flag the call found
EstEval ==
  /\ pc = "estimate_loss"
  /\ est' = [est EXCEPT !.split = 1, !.k = 0, !.entry = training,
                        !.returned = FALSE]
  /\ training' = ModelEval
  /\ pc' = "est_batch"
  /\ UNCHANGED <<cfg, vocab_size, train_data, val_data, model, iter,
                 ix, xb, yb, fwd, gen, steps, err>>

\* line 60
EstBatch ==
  /\ pc = "est_batch"
  /\ GetBatch(Splits[est.split], "est_call")
  /\ UNCHANGED <<cfg, vocab_size, train_data, val_data, model, training, iter,
                 est, fwd, gen, steps>>

\* line 61, the call
EstCall ==
  /\ pc = "est_call"
  /\ fwd' = Call(xb, TRUE)
  /\ ix' = <<>>
  /\ pc' = "est_forward"
  /\ UNCHANGED <<cfg, vocab_size, train_data, val_data, model, training, iter,
                 est, xb, yb, gen, steps, err>>

\* lines 62-63 and the two loop heads
EstRecord ==
  /\ pc = "est_forward"
  /\ fwd.stage = "done"
  /\ fwd' = Idle
  /\ IF est.k + 1 < eval_iters
       THEN est' = [est EXCEPT !.k = @ + 1] /\ pc' = "est_batch"
     ELSE IF est.split < Len(Splits)
       THEN est' = [est EXCEPT !.k = 0, !.split = @ + 1] /\ pc' = "est_batch"
     ELSE est' = est /\ pc' = "est_train"
  /\ UNCHANGED <<cfg, vocab_size, train_data, val_data, model, training, iter,
                 ix, xb, yb, gen, steps, err>>

\* lines 64-65
EstTrain ==
  /\ pc = "est_train"
  /\ training' = ModelTrain
  /\ est' = [est EXCEPT !.returned = TRUE]
  /\ pc' = est.ret
  /\ UNCHANGED <<cfg, vocab_size, train_data, val_data, model, iter,
                 ix, xb, yb, fwd, gen, steps, err>>

(* ------------------------------ driver -------------------------------- *)
\* lines 210-214: the constructors check nothing; nn.Module starts in
\* training mode
ConstructChecked ==
  /\ pc = "construct"
  /\ IF cfg.n_embed % cfg.n_head = 0
       THEN model' = "built" /\ training' = TRUE /\ pc' = "loop" /\ err' = err
     ELSE model' = model /\ training' = training /\ pc' = "error" /\ err' = "assert"
  /\ UNCHANGED <<cfg, vocab_size, train_data, val_data, iter,
                 est, ix, xb, yb, fwd, gen, steps>>

Construct ==
  /\ pc = "construct"
  /\ model' = "built"
  /\ training' = TRUE
  /\ pc' = "loop"
  /\ UNCHANGED <<cfg, vocab_size, train_data, val_data, iter,
                 est, ix, xb, yb, fwd, gen, steps, err>>

\* lines 216-219 and, once the loop is over, line 229
LoopHead ==
  /\ pc = "loop"
  /\ IF iter < max_iters
       THEN IF iter % eval_interval = 0
              THEN est' = [est EXCEPT !.ret = "train_batch"] /\ pc' = "estimate_loss"
            ELSE est' = est /\ pc' = "train_batch"
     ELSE est' = [est EXCEPT !.ret = "generate_call"] /\ pc' = "estimate_loss"
  /\ UNCHANGED <<cfg, vocab_size, train_data, val_data, model, training, iter,
                 ix, xb, yb, fwd, gen, steps, err>>

\* line 222
TrainBatch ==
  /\ pc = "train_batch"
  /\ GetBatch("train", "train_call")
  /\ UNCHANGED <<cfg, vocab_size, train_data, val_data, model, training, iter,
                 est, fwd, gen, steps>>

\* line 224, the call
TrainCall ==
  /\ pc = "train_call"
  /\ fwd' = Call(xb, TRUE)
  /\ ix' = <<>>
  /\ pc' = "train_forward"
  /\ UNCHANGED <<cfg, vocab_size, train_data, val_data, model, training, iter,
                 est, xb, yb, gen, steps, err>>

\* lines 225-227
OptStep ==
  /\ pc = "train_forward"
  /\ fwd.stage = "done"
  /\ steps' = [n |-> steps.n + 1, mode |-> fwd.mode /\ training]
  /\ iter' = iter + 1
  /\ fwd' = Idle
  /\ pc' = "loop"
  /\ UNCHANGED <<cfg, vocab_size, train_data, val_data, model, training,
                 est, ix, xb, yb, gen, err>>

\* lines 233-234: a context of block_size zeros
GenerateCall ==
  /\ pc = "generate_call"
  /\ gen' = GenCall([i \in 1..cfg.block_size |-> 0], MaxNewTokens)
  /\ pc' = "generate"
  /\ UNCHANGED <<cfg, vocab_size, train_data, val_data, model, training, iter,
                 est, ix, xb, yb, fwd, steps, err>>

\* the corpus lengths the driver is run on
DriverLens == {1, MaxTextLen \div 2, MaxTextLen}

Init ==
  /\ \E V \in 1..MaxVocab : \E L \in DriverLens : \E h \in Hyper :
       Loaded(Text(V, L), h)
  /\ model = "none"
  /\ training = FALSE
  /\ pc = "construct"

NextLoop ==
  \/ LoopHead
  \/ EstEval
  \/ EstBatch
  \/ EstCall
  \/ EstRecord
  \/ EstTrain
  \/ TrainBatch
  \/ TrainCall
  \/ OptStep
  \/ GenerateCall
  \/ GenStep
  \/ GenSample
  \/ GenReturn
  \/ FwdEmbed
  \/ FwdBlock
  \/ FwdHead

Next == Construct \/ NextLoop

Spec == Init /\ [][Next]_vars

\* the loop entered with the model in either mode
InitMode ==
  /\ \E V \in 1..MaxVocab : \E L \in DriverLens : \E h \in Hyper :
       Loaded(Text(V, L), h)
  /\ model = "built"
  /\ training \in BOOLEAN
  /\ pc = "loop"

SpecMode == InitMode /\ [][NextLoop]_vars

\* get_batch called on its own
InitBatch ==
  /\ \E V \in 1..MaxVocab : \E L \in 1..MaxTextLen : \E h \in Hyper :
       /\ h.n_embed = 1
       /\ h.n_head = 1
       /\ Loaded(Text(V, L), h)
  /\ model = "none"
  /\ training = FALSE
  /\ pc = "client"

ClientGetBatch ==
  /\ pc = "client"
  /\ \E split \in {"train", "val"} :
       /\ est' = [est EXCEPT !.split = IF split = "train" THEN 1 ELSE 2]
       /\ GetBatch(split, "done")
  /\ UNCHANGED <<cfg, vocab_size, train_data, val_data, model, training, iter,
                 fwd, gen, steps>>

NextBatch == ClientGetBatch

SpecBatch == InitBatch /\ [][NextBatch]_vars

(* ============================== claims ================================ *)
Divisible == cfg.n_embed % cfg.n_head = 0
FwdStarted == fwd.stage # "idle"

\* C1: for every seed (the claim names seeds shorter than block_size) and
\* every k, generate(seed, k) returns: it does not raise, and the sequence it
\* returns has length len(seed) + k with every generated id in
\* [0, vocab_size).  Stated for a model whose n_embed is divisible by n_head
\* and for non-empty seeds.
C1_GenerateReturns ==
  (Divisible /\ Len(gen.seed) >= 1) =>
    /\ pc # "error"
    /\ gen.returned =>
         /\ Len(gen.idx) = Len(gen.seed) + gen.max_new_tokens
         /\ \A m \in (Len(gen.seed) + 1)..Len(gen.idx) :
              gen.idx[m] \in 0..(vocab_size - 1)

\* C2, the parts: generate is append-only.  In every state the sequence is the seed
\* followed by one id per completed iteration, no step changes an element
\* the sequence already holds, and a call with max_new_tokens = 0 returns the
\* seed without a forward pass.
C2_Prefix ==
  /\ Len(gen.idx) = Len(gen.seed) + gen.i
  /\ SubSeq(gen.idx, 1, Len(gen.seed)) = gen.seed
  /\ (gen.returned /\ gen.max_new_tokens = 0) =>
       (gen.idx = gen.seed /\ gen.passes = 0)

C2_Kept ==
  pc # "ready" =>
    /\ Len(gen'.idx) >= Len(gen.idx)
    /\ \A m \in 1..Len(gen.idx) : gen'.idx[m] = gen.idx[m]

\* C2: the sequence always is the seed plus the generated ids, and every
\* step keeps the ids it already holds
C2_AppendOnly == [](C2_Prefix) /\ [][C2_Kept]_vars

C2_Witness ==
  /\ gen.returned
  /\ gen.i = MaxNewTokens
  /\ Len(gen.seed) >= 1
  /\ gen.idx[1] # gen.idx[Len(gen.idx)]

\* C5: whenever generate has a forward pass under way, the rows handed to
\* forward are the last min(len(idx), block_size) ids of the current
\* sequence, so never more than block_size of them.
C5_Truncation ==
  pc = "gen_forward" =>
    LET c == gen.idx_cond
        n == Len(gen.idx)
    IN
    /\ fwd.idx = <<c>>
    /\ Len(c) = Min(n, cfg.block_size)
    /\ Len(c) <= cfg.block_size
    /\ \A m \in 1..Len(c) : c[m] = gen.idx[n - Len(c) + m]

C5_Witness ==
  /\ pc = "gen_forward"
  /\ gen.i >= 1
  /\ Len(gen.idx) > cfg.block_size
  /\ gen.idx[1] # gen.idx[Len(gen.idx)]
  /\ fwd.stage = "done"

\* C3: on every input with 1 <= T <= block_size the attention forward of a
\* model with n_embed divisible by n_head succeeds, with an output of the
\* input's shape.
C3_AttentionAcceptsShort ==
  (FwdStarted /\ Divisible /\ 1 <= FwdT /\ FwdT <= cfg.block_size) =>
    /\ fwd.stage # "error"
    /\ fwd.layer >= 1 => fwd.x = <<FwdB, FwdT, cfg.n_embed>>

\* C4: in every forward pass the attention accepted, the weight from query
\* i to a key j > i is zero, and an input that agrees with the given one on
\* positions 1..i has the same attention output at position i (for the same
\* dropout draw).
AttentionRan == fwd.stage \in {"blocks", "head", "done"} /\ fwd.layer >= 1

C4_Causal ==
  AttentionRan =>
    LET row == fwd.idx[1]
        T == Len(row)
    IN
    /\ \A i \in 1..T : \A j \in 1..T : j > i => fwd.wei[i][j] = 0
    /\ \A i \in 1..T :
         \A rest \in [(i + 1)..T -> 0..(vocab_size - 1)] :
           LET other == [m \in 1..T |-> IF m <= i THEN row[m] ELSE rest[m]] IN
           AttOut(Embed(other), cfg.block_size, training, fwd.dropped, i)
             = AttOut(Embed(row), cfg.block_size, training, fwd.dropped, i)

C4_Witness ==
  /\ fwd.stage = "done"
  /\ FwdT >= 2
  /\ fwd.wei[2][1] = 1
  /\ fwd.wei[1][2] = 0
  /\ fwd.idx[1][1] # fwd.idx[1][2]

\* C8: a forward call on a sequence longer than block_size raises at the
\* position embedding: it never gets past the embedding lookups and produces
\* neither logits nor loss.
C8_TooLongRaises ==
  (FwdStarted /\ FwdT > cfg.block_size) =>
    /\ fwd.stage \in {"embed", "error"}
    /\ fwd.logits = <<>>
    /\ ~fwd.loss
    /\ fwd.stage = "error" => (err = "position_embedding" /\ pc = "error")

C8_Witness ==
  /\ fwd.stage = "error"
  /\ FwdT > cfg.block_size
  /\ err = "position_embedding"
  /\ Divisible

\* C6: every example get_batch returns starts at an offset s in
\* [0, len(data) - block_size); its input window is data[s .. s+block_size-1]
\* and its target window data[s+1 .. s+block_size], block_size ids each, so
\* the target is the input shifted left by one; get_batch raises only on a
\* sequence no longer than block_size.
C6_Windows ==
  LET data == Data(Splits[est.split])
      bs == cfg.block_size
  IN
  /\ pc = "error" => Len(data) <= bs
  /\ pc = "done" =>
       /\ Len(data) > bs
       /\ Len(ix) = batch_size /\ Len(xb) = batch_size /\ Len(yb) = batch_size
       /\ \A b \in 1..batch_size :
            /\ ix[b] >= 0 /\ ix[b] < Len(data) - bs
            /\ Len(xb[b]) = bs /\ Len(yb[b]) = bs
            /\ \A m \in 1..bs : xb[b][m] = data[ix[b] + m]
            /\ \A m \in 1..bs : yb[b][m] = data[ix[b] + 1 + m]
            /\ \A m \in 1..(bs - 1) : yb[b][m] = xb[b][m + 1]

C6_Witness ==
  /\ pc = "done"
  /\ cfg.block_size >= 2
  /\ ix[1] = Len(Data(Splits[est.split])) - cfg.block_size - 1
  /\ ix[1] >= 1
  /\ xb[1] # yb[1]

\* C7 as claimed: with n_embed not divisible by n_head no model object is
\* ever constructed and no forward pass is reached.
C7_RaisesAtConstruction ==
  ~Divisible => (model = "none" /\ ~FwdStarted)

\* C7 as amended: with n_embed not divisible by n_head the constructor
\* returns a model, and the first forward pass raises at the head-splitting
\* view of the first attention layer: no forward pass returns, no optimizer
\* step is taken and nothing is generated.
C7_RaisesAtFirstForward ==
  ~Divisible =>
    /\ pc # "construct" => model = "built"
    /\ fwd.stage \notin {"head", "done"}
    /\ fwd.layer = 0
    /\ fwd.stage = "error" => err = "view"
    /\ steps.n = 0
    /\ gen = NoGen

C7_Witness ==
  /\ ~Divisible
  /\ model = "built"
  /\ fwd.stage = "error"
  /\ err = "view"
  /\ FwdT = cfg.block_size

\* what C9 says of the forward passes and of the optimizer steps: a forward
\* pass inside estimate_loss runs in evaluation mode, the flag keeps the
\* value it had when the pass began, and every optimizer step is taken, and
\* its forward pass run, in training mode
C9_Passes ==
  /\ (pc = "est_forward" /\ FwdStarted) => (~training /\ ~fwd.mode)
  /\ (FwdStarted /\ fwd.stage # "error") => training = fwd.mode
  /\ pc = "train_forward" => (training /\ fwd.mode)
  /\ steps.n > 0 => steps.mode

\* C9 as claimed: ... and when estimate_loss returns the model is back in
\* the mode it had when estimate_loss was called, for either starting mode.
C9_RestoresMode ==
  /\ C9_Passes
  /\ est.returned => training = est.entry

\* C9 as amended: ... and when estimate_loss returns the model is in
\* training mode, whatever mode it had when estimate_loss was called.
C9_LeavesTraining ==
  /\ C9_Passes
  /\ est.returned => training

C9_Witness ==
  /\ est.returned
  /\ ~est.entry
  /\ training
  /\ steps.n >= 1
  /\ pc = "train_forward"
  /\ fwd.stage = "done"

\* C10: every forward pass of the driver's final generate call runs with the
\* model in evaluation mode, so no attention weight is dropped in it.
C10_GenerateInEval ==
  (pc = "gen_forward" /\ FwdStarted) =>
    /\ ~training
    /\ ~fwd.mode
    /\ fwd.dropped = {}

=============================================================================
